---- MODULE Spec2Model ----
(***************************************************************************)
(* Authority validation and PDA signing seeds of the cp-swap program       *)
(* (programs/cp-swap/src/utils/authority.rs).                              *)
(*                                                                         *)
(* The three functions of authority.rs are operators; the pool accounts    *)
(* they read are the state.  Every call made by an instruction handler is  *)
(* an action that loads a pool, applies the function and appends the call  *)
(* (inputs and result) to a log, so that claims relating several calls     *)
(* are invariants of the log.                                              *)
(***************************************************************************)
EXTENDS Integers, Sequences, FiniteSets, TLC

VARIABLES
    pool_states,   \* pool id -> the PoolState fields read by authority.rs
    log,           \* the calls made so far: inputs and result of each
    tx,            \* the unit of work (instruction) in progress, if any
    vault,         \* pooled funds moved by a privileged transfer
    param,         \* a pool parameter changed by a privileged update
    units          \* units of work started so far

vars == <<pool_states, log, tx, vault, param, units>>

----------------------------------------------------------------------------
(* Bounds of the model *)

MaxCalls == 2
MaxUnits == 2
VaultInit == 2

(* Program constants *)

U8_MAX == 255
PUBKEY_BYTES == 32
AUTH_SEED == <<97, 117, 116, 104, 111, 114, 105, 116, 121>>   \* "authority"
PDA_MARKER == <<80, 114, 111, 103, 114, 97, 109, 68, 101, 114, 105, 118,
                101, 100, 65, 100, 100, 114, 101, 115, 115>>  \* "ProgramDerivedAddress"

Byte == 0..U8_MAX
PoolIds == {1, 2}

----------------------------------------------------------------------------
(* Addresses: 32-byte sequences *)

ConstKey(b) == [i \in 1..PUBKEY_BYTES |-> b]
LastByteFlipped(k) == [k EXCEPT ![PUBKEY_BYTES] = (@ + 1) % (U8_MAX + 1)]

Pubkey_default == ConstKey(0)

\* the digest stands for SHA-256: every output byte mixes the length and
\* three input bytes, and every input byte of a message of up to
\* 2 * PUBKEY_BYTES bytes reaches an output byte
Digest(data) ==
    LET n == Len(data)
    IN  [i \in 1..PUBKEY_BYTES |->
            (  data[((i - 1) % n) + 1] * 31
             + data[((i - 1 + PUBKEY_BYTES) % n) + 1] * 17
             + data[((5 * i) % n) + 1] * 7
             + n + 3 * i) % (U8_MAX + 1)]

RECURSIVE Concat(_)
Concat(seeds) ==
    IF seeds = <<>> THEN <<>> ELSE Head(seeds) \o Concat(Tail(seeds))

create_program_address(seeds, program_id) ==
    Digest(Concat(seeds) \o program_id \o PDA_MARKER)

----------------------------------------------------------------------------
(* Input domains *)

Bumps == {7, U8_MAX}
P1 == ConstKey(1)
P2 == ConstKey(2)
Programs == {P1, P2}
K1 == ConstKey(17)
K2 == LastByteFlipped(K1)
CustomAuthorities == {Pubkey_default, K1}
SignerKeys == {Pubkey_default, K1, K2}

PoolStates == [auth_bump : Bumps, custom_authority : CustomAuthorities]

----------------------------------------------------------------------------
(* PoolState accessors used by authority.rs *)

is_custom_authority(pool_state) ==
    pool_state.custom_authority # Pubkey_default

get_pool_authority(pool_state, program_id) ==
    create_program_address(<<AUTH_SEED, <<pool_state.auth_bump>>>>, program_id)

----------------------------------------------------------------------------
(* authority.rs *)

\* variants of validate_authority with a defect, used to test the claims
validate_authority_prefix(pool_state, authority, program_id) ==
    LET expected_authority == get_pool_authority(pool_state, program_id)
    IN  IF SubSeq(authority, 1, PUBKEY_BYTES - 1)
              = SubSeq(expected_authority, 1, PUBKEY_BYTES - 1)
        THEN "Ok" ELSE "InvalidAuthority"

validate_authority_other_error(pool_state, authority, program_id) ==
    LET expected_authority == get_pool_authority(pool_state, program_id)
    IN  IF authority = expected_authority THEN "Ok"
        ELSE IF is_custom_authority(pool_state) THEN "InvalidInput"
        ELSE "InvalidAuthority"

validate_authority_remembers(pool_state, authority, program_id) ==
    LET expected_authority == get_pool_authority(pool_state, program_id)
    IN  IF authority = expected_authority THEN "Ok"
        ELSE IF Len(log) > 0 /\ log[Len(log)].result = "InvalidAuthority" THEN "Ok"
        ELSE "InvalidAuthority"

validate_authority_by_mode(pool_state, authority, program_id) ==
    LET expected_authority ==
            IF is_custom_authority(pool_state) THEN pool_state.custom_authority
            ELSE get_pool_authority(pool_state, program_id)
    IN  IF authority = expected_authority THEN "Ok" ELSE "InvalidAuthority"

validate_authority(pool_state, authority, program_id) ==
    LET expected_authority == get_pool_authority(pool_state, program_id)
    IN  IF authority = expected_authority THEN "Ok" ELSE "InvalidAuthority"

\* variants of validate_custom_authority_signer with a defect
validate_custom_authority_signer_zero_ok(pool_state, authority) ==
    IF is_custom_authority(pool_state)
    THEN IF authority = pool_state.custom_authority \/ authority = Pubkey_default
         THEN "Ok" ELSE "InvalidAuthority"
    ELSE "Ok"

validate_custom_authority_signer_unconditional(pool_state, authority) ==
    IF authority = pool_state.custom_authority
    THEN "Ok" ELSE "InvalidAuthority"

validate_custom_authority_signer(pool_state, authority) ==
    IF is_custom_authority(pool_state)
    THEN IF authority = pool_state.custom_authority
         THEN "Ok" ELSE "InvalidAuthority"
    ELSE "Ok"

\* variants of get_pda_authority_seeds with a defect
get_pda_authority_seeds_signed_bump(bump) ==
    <<AUTH_SEED, <<bump % 128>>>>

get_pda_authority_seeds_swapped(bump) ==
    <<<<bump>>, AUTH_SEED>>

get_pda_authority_seeds(bump) ==
    <<AUTH_SEED, <<bump>>>>

----------------------------------------------------------------------------
(* Addresses presented to validate_authority: the pools' authorities, the  *)
(* addresses a caller re-derives from the signing seeds, an address one    *)
(* byte away from an authority, and a custom key                           *)

DerivedAddresses ==
    {create_program_address(<<AUTH_SEED, <<b>>>>, p) : b \in Bumps, p \in Programs}

SeedDerivedAddresses ==
    {create_program_address(get_pda_authority_seeds(b), p) : b \in Bumps, p \in Programs}

Candidates ==
    DerivedAddresses
        \cup SeedDerivedAddresses
        \cup {LastByteFlipped(create_program_address(<<AUTH_SEED, <<7>>>>, P1))}
        \cup {K1}

----------------------------------------------------------------------------
(* State machine *)

NoKey == <<>>
NoPoolState == [auth_bump |-> 0, custom_authority |-> NoKey]
IdleTx == [phase |-> "idle", check |-> "none", pool |-> 0, key |-> NoKey,
           program_id |-> NoKey, kind |-> "none", result |-> "none",
           snap_vault |-> 0, snap_param |-> 0]

Init ==
    /\ pool_states \in [PoolIds -> PoolStates]
    /\ log = <<>>
    /\ tx = IdleTx
    /\ vault = VaultInit
    /\ param = 0
    /\ units = 0

ValidateAuthorityCall(id, authority, program_id) ==
    /\ Len(log) < MaxCalls
    /\ log' = Append(log,
                [op |-> "validate_authority",
                 pool_state |-> pool_states[id],
                 key |-> authority,
                 program_id |-> program_id,
                 bump |-> 0,
                 result |-> validate_authority(pool_states[id], authority, program_id)])
    /\ UNCHANGED <<pool_states, tx, vault, param, units>>

\* variant of the signer check that writes the signer into the pool on success
ValidateCustomAuthoritySignerCall_writes(id, authority) ==
    /\ Len(log) < MaxCalls
    /\ log' = Append(log,
                [op |-> "validate_custom_authority_signer",
                 pool_state |-> pool_states[id],
                 key |-> authority,
                 program_id |-> NoKey,
                 bump |-> 0,
                 result |-> validate_custom_authority_signer(pool_states[id], authority)])
    /\ pool_states' =
            IF validate_custom_authority_signer(pool_states[id], authority) = "Ok"
            THEN [pool_states EXCEPT ![id].custom_authority = authority]
            ELSE pool_states
    /\ UNCHANGED <<tx, vault, param, units>>

ValidateCustomAuthoritySignerCall(id, authority) ==
    /\ Len(log) < MaxCalls
    /\ log' = Append(log,
                [op |-> "validate_custom_authority_signer",
                 pool_state |-> pool_states[id],
                 key |-> authority,
                 program_id |-> NoKey,
                 bump |-> 0,
                 result |-> validate_custom_authority_signer(pool_states[id], authority)])
    /\ UNCHANGED <<pool_states, tx, vault, param, units>>

GetPdaAuthoritySeedsCall(bump) ==
    /\ Len(log) < MaxCalls
    /\ log' = Append(log,
                [op |-> "get_pda_authority_seeds",
                 pool_state |-> NoPoolState,
                 key |-> NoKey,
                 program_id |-> NoKey,
                 bump |-> bump,
                 result |-> get_pda_authority_seeds(bump)])
    /\ UNCHANGED <<pool_states, tx, vault, param, units>>

Next ==
    \/ \E id \in PoolIds, a \in Candidates, p \in Programs :
            ValidateAuthorityCall(id, a, p)
    \/ \E id \in PoolIds, s \in SignerKeys :
            ValidateCustomAuthoritySignerCall(id, s)
    \/ \E b \in Bumps : GetPdaAuthoritySeedsCall(b)

Spec == Init /\ [][Next]_vars

----------------------------------------------------------------------------
(* A privileged instruction as a unit of work: the handler validates the   *)
(* authority first and mutates only after success; on an error the runtime *)
(* discards the unit.                                                      *)

TxKinds == {"transfer", "set_param"}

TxBegin(check, id, key, program_id, kind) ==
    /\ tx.phase = "idle"
    /\ units < MaxUnits
    /\ units' = units + 1
    /\ tx' = [phase |-> "begun", check |-> check, pool |-> id, key |-> key,
              program_id |-> program_id, kind |-> kind, result |-> "none",
              snap_vault |-> vault, snap_param |-> param]
    /\ UNCHANGED <<pool_states, log, vault, param>>

TxValidate ==
    /\ tx.phase = "begun"
    /\ LET r == IF tx.check = "authority"
                THEN validate_authority(pool_states[tx.pool], tx.key, tx.program_id)
                ELSE validate_custom_authority_signer(pool_states[tx.pool], tx.key)
       IN  tx' = [tx EXCEPT !.result = r,
                            !.phase = IF r = "Ok" THEN "validated" ELSE "failed"]
    /\ UNCHANGED <<pool_states, log, vault, param, units>>

\* variant of the handler that mutates without looking at the check's result
TxMutate_unchecked ==
    /\ tx.phase \in {"validated", "failed"}
    /\ \/ /\ tx.kind = "transfer"
          /\ vault > 0
          /\ vault' = vault - 1
          /\ param' = param
       \/ /\ tx.kind = "set_param"
          /\ param' = 1 - param
          /\ vault' = vault
    /\ tx' = [tx EXCEPT !.phase = "mutated"]
    /\ UNCHANGED <<pool_states, log, units>>

TxMutate ==
    /\ tx.phase = "validated"
    /\ \/ /\ tx.kind = "transfer"
          /\ vault > 0
          /\ vault' = vault - 1
          /\ param' = param
       \/ /\ tx.kind = "set_param"
          /\ param' = 1 - param
          /\ vault' = vault
    /\ tx' = [tx EXCEPT !.phase = "mutated"]
    /\ UNCHANGED <<pool_states, log, units>>

TxCommit ==
    /\ tx.phase = "mutated"
    /\ tx' = IdleTx
    /\ UNCHANGED <<pool_states, log, vault, param, units>>

TxAbort ==
    /\ tx.phase = "failed"
    /\ vault' = tx.snap_vault
    /\ param' = tx.snap_param
    /\ tx' = IdleTx
    /\ UNCHANGED <<pool_states, log, units>>

NextTx ==
    \/ \E id \in PoolIds, a \in Candidates, p \in Programs, k \in TxKinds :
            TxBegin("authority", id, a, p, k)
    \/ \E id \in PoolIds, s \in SignerKeys, k \in TxKinds :
            TxBegin("signer", id, s, NoKey, k)
    \/ TxValidate
    \/ TxMutate
    \/ TxCommit
    \/ TxAbort

SpecTx == Init /\ [][NextTx]_vars

----------------------------------------------------------------------------
(* Records of the log, by operation *)

AuthorityCalls == {i \in DOMAIN log : log[i].op = "validate_authority"}
SignerCalls == {i \in DOMAIN log : log[i].op = "validate_custom_authority_signer"}
SeedsCalls == {i \in DOMAIN log : log[i].op = "get_pda_authority_seeds"}
ValidatorCalls == AuthorityCalls \cup SignerCalls

\* the address derive(bump, "authority", P), written out
Derive(bump, program_id) ==
    Digest(AUTH_SEED \o <<bump>> \o program_id \o PDA_MARKER)

SameBytes(a, b) ==
    /\ Len(a) = Len(b)
    /\ \A k \in 1..Len(a) : a[k] = b[k]

----------------------------------------------------------------------------
\* C1: validate_authority(config, candidate, P) succeeds if and only if the
\* candidate equals derive(config.authority_bump, "authority", P) in all of
\* its 32 bytes, whatever the pool's mode; otherwise it fails with
\* InvalidAuthority.
C1_ValidateAuthorityIffDerived ==
    \A i \in AuthorityCalls :
        LET c == log[i]
            expected == Derive(c.pool_state.auth_bump, c.program_id)
        IN  /\ c.result = "Ok" <=> (Len(c.key) = PUBKEY_BYTES /\ SameBytes(c.key, expected))
            /\ c.result # "Ok" => c.result = "InvalidAuthority"

\* a Derived-mode pool accepted its derived address and rejected an address
\* that differs from the derived one in the last byte only
C1_Witness ==
    \E i, j \in AuthorityCalls :
        /\ log[i].pool_state.custom_authority = Pubkey_default
        /\ log[i].key = Derive(log[i].pool_state.auth_bump, log[i].program_id)
        /\ log[i].result = "Ok"
        /\ log[j].key = LastByteFlipped(Derive(log[j].pool_state.auth_bump, log[j].program_id))
        /\ log[j].result = "InvalidAuthority"

\* C2: for a Custom-mode pool with key K, validate_custom_authority_signer
\* succeeds if and only if the signer's address is K; every other signer,
\* the all-zero address included, fails with InvalidAuthority.
C2_CustomSignerIffKey ==
    \A i \in SignerCalls :
        LET c == log[i]
        IN  c.pool_state.custom_authority # Pubkey_default =>
                /\ c.result = "Ok" <=> c.key = c.pool_state.custom_authority
                /\ c.key # c.pool_state.custom_authority => c.result = "InvalidAuthority"

\* a Custom-mode pool accepted its key and rejected the all-zero signer
C2_Witness ==
    \E i, j \in SignerCalls :
        /\ log[i].pool_state.custom_authority = K1
        /\ log[i].key = K1
        /\ log[i].result = "Ok"
        /\ log[j].pool_state.custom_authority = K1
        /\ log[j].key = Pubkey_default
        /\ log[j].result = "InvalidAuthority"

\* C3: for a Derived-mode pool, validate_custom_authority_signer succeeds for
\* every signer and every authority_bump.
C3_DerivedSignerAlwaysOk ==
    \A i \in SignerCalls :
        log[i].pool_state.custom_authority = Pubkey_default => log[i].result = "Ok"

\* Derived-mode pools with different bumps were called with a non-zero signer
C3_Witness ==
    \E i, j \in SignerCalls :
        /\ log[i].pool_state.custom_authority = Pubkey_default
        /\ log[j].pool_state.custom_authority = Pubkey_default
        /\ log[i].pool_state.auth_bump # log[j].pool_state.auth_bump
        /\ log[i].key = K1
        /\ log[j].key = K2
        /\ log[i].result = "Ok"

\* C4: inside a unit of work no transfer and no parameter change happens
\* unless the authority check of that unit has returned success; a unit
\* whose check returned InvalidAuthority is aborted and leaves funds,
\* parameters and pool configuration as they were when the unit started.
C4_ValidationBeforeMutation ==
    [][ /\ (vault' # vault \/ param' # param) =>
                (tx.phase = "validated" /\ tx.result = "Ok")
        /\ tx'.phase \in {"validated", "mutated"} => tx'.result = "Ok"
        /\ tx'.phase = "failed" =>
                (tx'.result = "InvalidAuthority"
                    /\ vault' = tx'.snap_vault /\ param' = tx'.snap_param)
        /\ tx.phase = "failed" =>
                (tx' = IdleTx /\ vault' = tx.snap_vault /\ param' = tx.snap_param
                    /\ pool_states' = pool_states)
      ]_vars

\* an earlier unit moved funds and the current unit's check has failed
C4_Witness ==
    /\ tx.phase = "failed"
    /\ tx.result = "InvalidAuthority"
    /\ vault < VaultInit
    /\ vault = tx.snap_vault

\* C5: get_pda_authority_seeds(bump) is the two-element sequence
\* <<"authority" bytes, <<bump>>>> in that order, and it is injective over
\* the bumps 0..255.
C5_SeedsShapeAndInjective ==
    /\ \A i \in SeedsCalls :
        LET c == log[i]
        IN  /\ Len(c.result) = 2
            /\ c.result[1] = AUTH_SEED
            /\ c.result[2] = <<c.bump>>
            /\ \A b \in Byte : get_pda_authority_seeds(b) = c.result <=> b = c.bump
    /\ \A i, j \in SeedsCalls :
            log[i].result = log[j].result <=> log[i].bump = log[j].bump

\* the seeds were built for two distinct bumps, one of them above 127
C5_Witness ==
    \E i, j \in SeedsCalls :
        /\ log[i].bump = 7
        /\ log[j].bump = U8_MAX
        /\ log[i].result # log[j].result

\* C6: the address that the derivation primitive gives for
\* get_pda_authority_seeds(config.authority_bump) and P is accepted by
\* validate_authority(config, address, P).
C6_SeedsRederiveAuthority ==
    \A i \in AuthorityCalls :
        LET c == log[i]
        IN  c.key = create_program_address(
                        get_pda_authority_seeds(c.pool_state.auth_bump), c.program_id)
                => c.result = "Ok"

\* validate_authority was called on an address re-derived from the seeds,
\* for each of the two programs
C6_Witness ==
    \E i, j \in AuthorityCalls :
        /\ log[i].program_id = P1
        /\ log[j].program_id = P2
        /\ \A k \in {i, j} :
            log[k].key = create_program_address(
                            get_pda_authority_seeds(log[k].pool_state.auth_bump),
                            log[k].program_id)

\* C7: no call of validate_authority, validate_custom_authority_signer or
\* get_pda_authority_seeds, successful or not, changes authority_bump or
\* custom_authority of any pool.
C7_CallsLeavePoolsUnchanged ==
    [][pool_states' = pool_states]_vars

\* a successful and a failed call have both been made
C7_Witness ==
    /\ Len(log) = MaxCalls
    /\ \E i, j \in ValidatorCalls :
        /\ log[i].result = "Ok"
        /\ log[j].result = "InvalidAuthority"

ValidatorTotal ==
    \A i \in ValidatorCalls : log[i].result \in {"Ok", "InvalidAuthority"}

\* C8 as stated: every validator call returns success or InvalidAuthority,
\* and every presented address or signer that differs from the pool's
\* configured authority (the custom key in Custom mode, the derived address
\* in Derived mode) yields InvalidAuthority.
C8_Original ==
    /\ ValidatorTotal
    /\ \A i \in AuthorityCalls :
        log[i].key # get_pool_authority(log[i].pool_state, log[i].program_id)
            => log[i].result = "InvalidAuthority"
    /\ \A i \in SignerCalls :
        LET c == log[i]
            configured ==
                IF is_custom_authority(c.pool_state)
                THEN {c.pool_state.custom_authority}
                ELSE {get_pool_authority(c.pool_state, p) : p \in Programs}
        IN  c.key \notin configured => c.result = "InvalidAuthority"

\* C8 amended: every validator call returns success or InvalidAuthority;
\* validate_authority yields InvalidAuthority on every mismatch with the
\* derived address, validate_custom_authority_signer yields it on every
\* mismatch with the custom key of a Custom-mode pool, and for a
\* Derived-mode pool the signer check returns success although the signer
\* is not the pool's authority.
C8_Amended ==
    /\ ValidatorTotal
    /\ \A i \in AuthorityCalls :
        log[i].key # get_pool_authority(log[i].pool_state, log[i].program_id)
            => log[i].result = "InvalidAuthority"
    /\ \A i \in SignerCalls :
        LET c == log[i]
        IN  IF is_custom_authority(c.pool_state)
            THEN c.key # c.pool_state.custom_authority => c.result = "InvalidAuthority"
            ELSE c.result = "Ok"

\* a Custom-mode pool rejected a wrong candidate address, and a Derived-mode
\* pool let a signer pass that is not its authority
C8_Witness ==
    \E i \in AuthorityCalls, j \in SignerCalls :
        /\ is_custom_authority(log[i].pool_state)
        /\ log[i].result = "InvalidAuthority"
        /\ ~is_custom_authority(log[j].pool_state)
        /\ \A p \in Programs : log[j].key # get_pool_authority(log[j].pool_state, p)
        /\ log[j].result = "Ok"

C10_InputIndependence ==
    /\ \A i, j \in AuthorityCalls :
        (/\ log[i].pool_state.auth_bump = log[j].pool_state.auth_bump
         /\ log[i].key = log[j].key
         /\ log[i].program_id = log[j].program_id)
            => log[i].result = log[j].result
    /\ \A i, j \in SignerCalls :
        (/\ log[i].pool_state.custom_authority = log[j].pool_state.custom_authority
         /\ log[i].key = log[j].key)
            => log[i].result = log[j].result

\* validate_authority was called with the custom key as candidate on a
\* Custom-mode and on a Derived-mode pool that have the same bump
C10_Witness ==
    \E i, j \in AuthorityCalls :
        /\ log[i].pool_state.auth_bump = log[j].pool_state.auth_bump
        /\ log[i].pool_state.custom_authority = K1
        /\ log[j].pool_state.custom_authority = Pubkey_default
        /\ log[i].key = K1
        /\ log[j].key = K1
        /\ log[i].program_id = log[j].program_id

====
